---- MODULE Spec2Model ----
(***************************************************************************)
(* Model of the Tork governance SDK (src/src/lib.rs): the PII pattern      *)
(* registry, detection with cumulative redaction, and the Tork engine      *)
(* (govern, statistics, configuration).                                    *)
(*                                                                         *)
(* A text is a sequence of characters; a character is a one-element string *)
(* (or the name of a non-ASCII character).  Positions inside a text are    *)
(* counted in characters (0 .. Len(s)); the offsets stored in a PIIMatch   *)
(* are byte offsets, as regex::Match::start/end return them.               *)
(***************************************************************************)
EXTENDS Integers, Sequences, FiniteSets, TLC

VARIABLES
    config,   \* Tork.config
    stats,    \* Tork.stats
    result,   \* the value most recently returned to the caller
    op,       \* the last call made: its name, its argument or the state it was made in
    scan,     \* the locals of a detect_pii call that is followed pattern by pattern
    mutex,    \* the Mutex of the SharedTork: 0 when unlocked, else the caller holding the guard
    calls     \* per caller of a shared handle: the call it makes, where it stands, its locals

vars == <<config, stats, result, op, scan, mutex, calls>>

\* The state of the shared handle and of its callers.
shared == <<mutex, calls>>

(***************************************************************************)
(* Characters                                                              *)
(***************************************************************************)
Digits == {"0", "1", "2", "3", "4", "5", "6", "7", "8", "9"}

UpperSeq == <<"A", "B", "C", "D", "E", "F", "G", "H", "I", "J", "K", "L", "M",
              "N", "O", "P", "Q", "R", "S", "T", "U", "V", "W", "X", "Y", "Z">>

LowerSeq == <<"a", "b", "c", "d", "e", "f", "g", "h", "i", "j", "k", "l", "m",
              "n", "o", "p", "q", "r", "s", "t", "u", "v", "w", "x", "y", "z">>

UpperCase == {UpperSeq[k] : k \in DOMAIN UpperSeq}

LowerCase == {LowerSeq[k] : k \in DOMAIN LowerSeq}

\* The characters equal to c when letter case is ignored ((?i)).
CaseFold(c) ==
    {c} \cup {UpperSeq[k] : k \in {j \in DOMAIN LowerSeq : LowerSeq[j] = c}}
        \cup {LowerSeq[k] : k \in {j \in DOMAIN UpperSeq : UpperSeq[j] = c}}

\* A non-ASCII letter (U+4E16, three bytes in UTF-8), as in the test input
\* "Hello \u{4e16}\u{754c}, SSN: ...".
NonAscii == {"U4E16"}

\* \w of the regex crate (Unicode aware): letters, digits, underscore.
WordChars == Digits \cup UpperCase \cup LowerCase \cup {"_"} \cup NonAscii

\* \s of the regex crate.
SpaceChars == {" ", "\t", "\n"}

\* Number of bytes of a character in the UTF-8 encoding of a &str.
Utf8Len(c) == IF c \in NonAscii THEN 3 ELSE 1

RECURSIVE ByteOffset(_, _)
\* Byte offset of character position i (0 .. Len(s)) in s.
ByteOffset(s, i) == IF i = 0 THEN 0 ELSE ByteOffset(s, i - 1) + Utf8Len(s[i])

\* s[from+1 .. to] : the characters between positions from and to.
Slice(s, from, to) == [k \in 1..(to - from) |-> s[from + k]]

(***************************************************************************)
(* Regular expressions, as the regex crate matches them: leftmost-first    *)
(* (the first alternative that leads to a match wins, quantifiers are      *)
(* greedy).  Ends(re, s, i) is the sequence of positions at which a match  *)
(* of re starting at position i can end, in order of preference.           *)
(***************************************************************************)
Chr(set) == [t |-> "chr", set |-> set]
Lit(c) == Chr({c})
WB == [t |-> "wb"]
Cat(parts) == [t |-> "cat", parts |-> parts]
Alt(alts) == [t |-> "alt", alts |-> alts]
\* r{min,max}
Rep(r, min, max) == [t |-> "rep", r |-> r, min |-> min, max |-> max]
\* r{min,}
RepMin(r, min) == [t |-> "repmin", r |-> r, min |-> min]
Opt(r) == Rep(r, 0, 1)
\* A literal word, matched in either letter case when ci is TRUE ((?i)).
Word(w, ci) ==
    Cat([k \in 1..Len(w) |-> IF ci THEN Chr(CaseFold(w[k])) ELSE Lit(w[k])])

\* \b : exactly one of the characters around position i is a word character.
IsWordBoundary(s, i) ==
    LET before == i > 0 /\ s[i] \in WordChars
        after == i < Len(s) /\ s[i + 1] \in WordChars
    IN  before # after

\* q without repeated elements, keeping the first occurrence of each.
\* The elements of q at the indices of keep, in the order of q.
AtIndices(q, keep) ==
    [n \in 1..Cardinality(keep) |->
       q[CHOOSE k \in keep : Cardinality({j \in keep : j < k}) = n - 1]]

Dedup(q) == AtIndices(q, {k \in DOMAIN q : \A j \in 1..(k - 1) : q[j] # q[k]})

\* The position where the run of characters of set that starts at i ends.
RunEnd(set, s, i) ==
    CHOOSE j \in i..Len(s) :
        /\ \A k \in (i + 1)..j : s[k] \in set
        /\ j = Len(s) \/ s[j + 1] \notin set

RECURSIVE Ends(_, _, _)
RECURSIVE EndsFromAll(_, _, _)
RECURSIVE CatEnds(_, _, _, _)
RECURSIVE AltEnds(_, _, _, _)
RECURSIVE RepEnds(_, _, _, _, _, _)
RECURSIVE RepFromAll(_, _, _, _, _, _)

\* The ends of re started at each position of starts, in order.
EndsFromAll(re, s, starts) ==
    IF starts = <<>> THEN <<>>
    ELSE Ends(re, s, Head(starts)) \o EndsFromAll(re, s, Tail(starts))

CatEnds(parts, k, s, starts) ==
    IF k > Len(parts) \/ starts = <<>> THEN starts
    ELSE CatEnds(parts, k + 1, s, Dedup(EndsFromAll(parts[k], s, starts)))

AltEnds(alts, k, s, i) ==
    IF k > Len(alts) THEN <<>>
    ELSE Ends(alts[k], s, i) \o AltEnds(alts, k + 1, s, i)

\* Greedy repetition of a character class: the longest run first, then
\* shorter ones down to min characters.
\* The ends of the runs of most, most - 1, ... min characters from i.
Shrinking(i, most, min) == [n \in 1..(most - min + 1) |-> i + most - n + 1]

ClassRun(max, bounded, i, run) ==
    IF bounded /\ max < run - i THEN max ELSE run - i

ClassRepEnds(set, min, max, bounded, s, i) ==
    Shrinking(i, ClassRun(max, bounded, i, RunEnd(set, s, i)), min)

\* Greedy repetition: one more iteration is preferred to stopping.
RepEnds(r, min, max, bounded, s, i) ==
    Dedup((IF bounded /\ max = 0 THEN <<>>
           ELSE RepFromAll(r, IF min > 0 THEN min - 1 ELSE 0,
                           IF bounded THEN max - 1 ELSE 0, bounded, s,
                           Ends(r, s, i)))
          \o (IF min = 0 THEN <<i>> ELSE <<>>))

RepFromAll(r, min, max, bounded, s, starts) ==
    IF starts = <<>> THEN <<>>
    ELSE RepEnds(r, min, max, bounded, s, Head(starts))
           \o RepFromAll(r, min, max, bounded, s, Tail(starts))

Ends(re, s, i) ==
    CASE re.t = "chr" -> IF i < Len(s) /\ s[i + 1] \in re.set THEN <<i + 1>> ELSE <<>>
      [] re.t = "wb" -> IF IsWordBoundary(s, i) THEN <<i>> ELSE <<>>
      [] re.t = "cat" -> CatEnds(re.parts, 1, s, <<i>>)
      [] re.t = "alt" -> Dedup(AltEnds(re.alts, 1, s, i))
      [] re.t = "rep" ->
           IF re.r.t = "chr" THEN ClassRepEnds(re.r.set, re.min, re.max, TRUE, s, i)
           ELSE RepEnds(re.r, re.min, re.max, TRUE, s, i)
      [] re.t = "repmin" ->
           IF re.r.t = "chr" THEN ClassRepEnds(re.r.set, re.min, 0, FALSE, s, i)
           ELSE RepEnds(re.r, re.min, 0, FALSE, s, i)

\* Regex::find_at: the leftmost match starting at position >= from, as
\* <<start, end>> in character positions, or <<>> when there is none.
MatchAt(re, s, start) == <<start, Head(Ends(re, s, start))>>

LeftmostOf(re, s, hits) ==
    IF hits = {} THEN <<>> ELSE MatchAt(re, s, CHOOSE i \in hits : \A j \in hits : i <= j)

FindFrom(re, s, from) ==
    LeftmostOf(re, s, {i \in from..Len(s) : Ends(re, s, i) # <<>>})

RECURSIVE FindIter(_, _, _)
RECURSIVE FindNext(_, _, _)
\* Regex::find_iter: the successive non-overlapping matches of re in s.
FindIter(re, s, from) == FindNext(re, s, FindFrom(re, s, from))

\* The match m, if there is one, and those after it.  (No pattern of the
\* registry matches the empty string.)
FindNext(re, s, m) ==
    IF m = <<>> THEN <<>> ELSE <<m>> \o FindIter(re, s, m[2])

\* s with the matches of found replaced by rep; found[k ..] start at or after from.
RECURSIVE Splice(_, _, _, _, _)
Splice(s, rep, found, k, from) ==
    IF k > Len(found) THEN Slice(s, from, Len(s))
    ELSE Slice(s, from, found[k][1]) \o rep \o Splice(s, rep, found, k + 1, found[k][2])

\* Regex::replace_all with a replacement that holds no $ reference.
ReplaceAll(re, s, rep) == Splice(s, rep, FindIter(re, s, 0), 1, 0)

(***************************************************************************)
(* PIIType and the pattern registry (get_pii_patterns)                     *)
(***************************************************************************)
PIIType == {"Ssn", "CreditCard", "Email", "Phone", "Address", "IpAddress",
            "DateOfBirth", "Passport", "DriversLicense", "BankAccount"}

\* PIIType::redaction
redaction(pii_type) ==
    CASE pii_type = "Ssn" -> <<"[", "S", "S", "N", "_", "R", "E", "D", "A", "C", "T", "E", "D", "]">>
      [] pii_type = "CreditCard" -> <<"[", "C", "A", "R", "D", "_", "R", "E", "D", "A", "C", "T", "E", "D", "]">>
      [] pii_type = "Email" -> <<"[", "E", "M", "A", "I", "L", "_", "R", "E", "D", "A", "C", "T", "E", "D", "]">>
      [] pii_type = "Phone" -> <<"[", "P", "H", "O", "N", "E", "_", "R", "E", "D", "A", "C", "T", "E", "D", "]">>
      [] pii_type = "Address" -> <<"[", "A", "D", "D", "R", "E", "S", "S", "_", "R", "E", "D", "A", "C", "T", "E", "D", "]">>
      [] pii_type = "IpAddress" -> <<"[", "I", "P", "_", "R", "E", "D", "A", "C", "T", "E", "D", "]">>
      [] pii_type = "DateOfBirth" -> <<"[", "D", "O", "B", "_", "R", "E", "D", "A", "C", "T", "E", "D", "]">>
      [] pii_type = "Passport" -> <<"[", "P", "A", "S", "S", "P", "O", "R", "T", "_", "R", "E", "D", "A", "C", "T", "E", "D", "]">>
      [] pii_type = "DriversLicense" -> <<"[", "D", "L", "_", "R", "E", "D", "A", "C", "T", "E", "D", "]">>
      [] pii_type = "BankAccount" -> <<"[", "A", "C", "C", "O", "U", "N", "T", "_", "R", "E", "D", "A", "C", "T", "E", "D", "]">>

D == Chr(Digits)
\* [-\s]
DashSpace == Chr({"-"} \cup SpaceChars)
\* [-.\s]
DashDotSpace == Chr({"-", "."} \cup SpaceChars)
\* [A-Za-z0-9]
AlphaNum == UpperCase \cup LowerCase \cup Digits
W == Chr(WordChars)
S == Chr(SpaceChars)

\* \b\d{3}-\d{2}-\d{4}\b
SsnRegex == Cat(<<WB, Rep(D, 3, 3), Lit("-"), Rep(D, 2, 2), Lit("-"), Rep(D, 4, 4), WB>>)

\* \b\d{4}[-\s]?\d{4}[-\s]?\d{4}[-\s]?\d{4}\b
CreditCardRegex ==
    Cat(<<WB, Rep(D, 4, 4), Opt(DashSpace), Rep(D, 4, 4), Opt(DashSpace),
          Rep(D, 4, 4), Opt(DashSpace), Rep(D, 4, 4), WB>>)

\* \b[A-Za-z0-9._%+-]+@[A-Za-z0-9.-]+\.[A-Za-z]{2,}\b
EmailRegex ==
    Cat(<<WB, RepMin(Chr(AlphaNum \cup {".", "_", "%", "+", "-"}), 1), Lit("@"),
          RepMin(Chr(AlphaNum \cup {".", "-"}), 1), Lit("."),
          RepMin(Chr(UpperCase \cup LowerCase), 2), WB>>)

\* \b(?:\+?1[-.\s]?)?\(?\d{3}\)?[-.\s]?\d{3}[-.\s]?\d{4}\b
PhoneRegex ==
    Cat(<<WB, Opt(Cat(<<Opt(Lit("+")), Lit("1"), Opt(DashDotSpace)>>)),
          Opt(Lit("(")), Rep(D, 3, 3), Opt(Lit(")")), Opt(DashDotSpace),
          Rep(D, 3, 3), Opt(DashDotSpace), Rep(D, 4, 4), WB>>)

\* Street|St|Avenue|Ave|Road|Rd|Boulevard|Blvd|Drive|Dr|Lane|Ln|Court|Ct|Way|Place|Pl
StreetSuffixes ==
    <<<<"S", "t", "r", "e", "e", "t">>,
      <<"S", "t">>,
      <<"A", "v", "e", "n", "u", "e">>,
      <<"A", "v", "e">>,
      <<"R", "o", "a", "d">>,
      <<"R", "d">>,
      <<"B", "o", "u", "l", "e", "v", "a", "r", "d">>,
      <<"B", "l", "v", "d">>,
      <<"D", "r", "i", "v", "e">>,
      <<"D", "r">>,
      <<"L", "a", "n", "e">>,
      <<"L", "n">>,
      <<"C", "o", "u", "r", "t">>,
      <<"C", "t">>,
      <<"W", "a", "y">>,
      <<"P", "l", "a", "c", "e">>,
      <<"P", "l">>>>

\* (?i)\b\d{1,5}\s+\w+(?:\s+\w+)*\s+(?:Street|St|...|Pl)\b
AddressRegex ==
    Cat(<<WB, Rep(D, 1, 5), RepMin(S, 1), RepMin(W, 1),
          RepMin(Cat(<<RepMin(S, 1), RepMin(W, 1)>>), 0), RepMin(S, 1),
          Alt([k \in DOMAIN StreetSuffixes |-> Word(StreetSuffixes[k], TRUE)]), WB>>)

\* 25[0-5]|2[0-4][0-9]|[01]?[0-9][0-9]?
Octet ==
    Alt(<<Cat(<<Lit("2"), Lit("5"), Chr({"0", "1", "2", "3", "4", "5"})>>),
          Cat(<<Lit("2"), Chr({"0", "1", "2", "3", "4"}), D>>),
          Cat(<<Opt(Chr({"0", "1"})), D, Opt(D)>>)>>)

\* \b(?:(?:25[0-5]|2[0-4][0-9]|[01]?[0-9][0-9]?)\.){3}(?:25[0-5]|...)\b
IpAddressRegex == Cat(<<WB, Rep(Cat(<<Octet, Lit(".")>>), 3, 3), Octet, WB>>)

\* \b(?:0[1-9]|1[0-2])/(?:0[1-9]|[12]\d|3[01])/(?:19|20)\d{2}\b
DateOfBirthRegex ==
    Cat(<<WB,
          Alt(<<Cat(<<Lit("0"), Chr(Digits \ {"0"})>>),
                Cat(<<Lit("1"), Chr({"0", "1", "2"})>>)>>),
          Lit("/"),
          Alt(<<Cat(<<Lit("0"), Chr(Digits \ {"0"})>>),
                Cat(<<Chr({"1", "2"}), D>>),
                Cat(<<Lit("3"), Chr({"0", "1"})>>)>>),
          Lit("/"),
          Alt(<<Cat(<<Lit("1"), Lit("9")>>), Cat(<<Lit("2"), Lit("0")>>)>>),
          Rep(D, 2, 2), WB>>)

\* \b[A-Z]{1,2}\d{6,9}\b
PassportRegex == Cat(<<WB, Rep(Chr(UpperCase), 1, 2), Rep(D, 6, 9), WB>>)

\* \b[A-Z]\d{7,14}\b
DriversLicenseRegex == Cat(<<WB, Chr(UpperCase), Rep(D, 7, 14), WB>>)

\* \b\d{8,17}\b
BankAccountRegex == Cat(<<WB, Rep(D, 8, 17), WB>>)

\* get_pii_patterns: the ten patterns, in registry order.
get_pii_patterns ==
    <<[pii_type |-> "Ssn", regex |-> SsnRegex],
      [pii_type |-> "CreditCard", regex |-> CreditCardRegex],
      [pii_type |-> "Email", regex |-> EmailRegex],
      [pii_type |-> "Phone", regex |-> PhoneRegex],
      [pii_type |-> "Address", regex |-> AddressRegex],
      [pii_type |-> "IpAddress", regex |-> IpAddressRegex],
      [pii_type |-> "DateOfBirth", regex |-> DateOfBirthRegex],
      [pii_type |-> "Passport", regex |-> PassportRegex],
      [pii_type |-> "DriversLicense", regex |-> DriversLicenseRegex],
      [pii_type |-> "BankAccount", regex |-> BankAccountRegex]>>

(***************************************************************************)
(* PII detection (detect_pii, Tork::detect_pii_internal)                   *)
(***************************************************************************)
\* PIIMatch with the offsets counted in characters, not in bytes.
PIIMatch_CharOffsets(pattern, text, mat) ==
    [pii_type |-> pattern.pii_type,
     value |-> Slice(text, mat[1], mat[2]),
     start_index |-> mat[1],
     end_index |-> mat[2]]

\* The PIIMatch pushed for the match mat of the pattern in text.
PIIMatch(pattern, text, mat) ==
    [pii_type |-> pattern.pii_type,
     value |-> Slice(text, mat[1], mat[2]),
     start_index |-> ByteOffset(text, mat[1]),
     end_index |-> ByteOffset(text, mat[2])]

MatchesOf(pattern, text, found) ==
    [k \in DOMAIN found |-> PIIMatch(pattern, text, found[k])]

\* The PIIMatch values pushed for one pattern: every match of find_iter(text),
\* with its byte offsets in text.
PatternMatches(pattern, text) ==
    MatchesOf(pattern, text, FindIter(pattern.regex, text, 0))

\* ScanStep that puts the new matches before those already recorded.
ScanStep_Prepends(pattern, new, acc) ==
    [matches |-> new \o acc.matches,
     detected_types |-> IF new = <<>> THEN acc.detected_types
                        ELSE acc.detected_types \cup {pattern.pii_type},
     redacted_text |-> ReplaceAll(pattern.regex, acc.redacted_text,
                                  redaction(pattern.pii_type))]

\* One iteration of the loop over the patterns: the matches are searched in
\* text (the original input), the replacement is made in redacted_text.
ScanStep(pattern, new, acc) ==
    [matches |-> acc.matches \o new,
     detected_types |-> IF new = <<>> THEN acc.detected_types
                        ELSE acc.detected_types \cup {pattern.pii_type},
     redacted_text |-> ReplaceAll(pattern.regex, acc.redacted_text,
                                  redaction(pattern.pii_type))]

\* ScanPattern with the replacement made in the original text, not in the
\* text redacted so far.
ScanPattern_RedactsOriginal(pattern, text, acc) ==
    [matches |-> acc.matches \o PatternMatches(pattern, text),
     detected_types |-> IF PatternMatches(pattern, text) = <<>> THEN acc.detected_types
                        ELSE acc.detected_types \cup {pattern.pii_type},
     redacted_text |-> ReplaceAll(pattern.regex, text, redaction(pattern.pii_type))]

ScanPattern(pattern, text, acc) == ScanStep(pattern, PatternMatches(pattern, text), acc)

\* ScanStart with the working copy started empty.
ScanStart_EmptyCopy(text) == [matches |-> <<>>, detected_types |-> {}, redacted_text |-> <<>>]

\* The locals before the loop.
ScanStart(text) == [matches |-> <<>>, detected_types |-> {}, redacted_text |-> text]

RECURSIVE ScanLoop(_, _, _, _)
\* The loop over patterns[k ..].
ScanLoop(patterns, k, text, acc) ==
    IF k > Len(patterns) THEN acc
    ELSE ScanLoop(patterns, k + 1, text, ScanPattern(patterns[k], text, acc))

\* detected_types.into_iter().collect(): the elements of the HashSet, each
\* once, in the order its iterator yields them (any order).
Collect(set) ==
    {v \in [1..Cardinality(set) -> set] : \A i, j \in DOMAIN v : i # j => v[i] # v[j]}

\* DetectionResult with count taken from the categories, not from the matches.
DetectionResult_CountsTypes(acc, types) ==
    [has_pii |-> acc.matches # <<>>,
     types |-> types,
     count |-> Len(types),
     matches |-> acc.matches,
     redacted_text |-> acc.redacted_text]

\* The PIIDetectionResult built from the locals after the loop; types is the
\* vector collected from detected_types.
DetectionResult(acc, types) ==
    [has_pii |-> acc.matches # <<>>,
     types |-> types,
     count |-> Len(acc.matches),
     matches |-> acc.matches,
     redacted_text |-> acc.redacted_text]

\* pub fn detect_pii(text)
detect_pii(text, types) ==
    DetectionResult(ScanLoop(get_pii_patterns, 1, text, ScanStart(text)), types)

\* An engine whose patterns lack the first one of the registry.
patterns_WithoutFirst == Tail(get_pii_patterns)

\* Tork.patterns: set to get_pii_patterns() by new / with_config, never changed.
patterns == get_pii_patterns

\* fn detect_pii_internal(&self, text)
detect_pii_internal(text, types) ==
    DetectionResult(ScanLoop(patterns, 1, text, ScanStart(text)), types)

(***************************************************************************)
(* Receipts (hash_text, generate_receipt_id)                               *)
(***************************************************************************)
\* text.as_bytes(): the UTF-8 bytes of the text.
Utf8Bytes(c) == IF c = "U4E16" THEN <<"xE4", "xB8", "x96">> ELSE <<c>>

RECURSIVE as_bytes(_)
as_bytes(text) ==
    IF text = <<>> THEN <<>> ELSE Utf8Bytes(Head(text)) \o as_bytes(Tail(text))

\* Sha256 (sha2 crate) with hex::encode: an ideal digest, which depends on the
\* bytes hashed and on nothing else.
Sha256Hex(bytes) == [digest_of |-> bytes]

\* pub fn hash_text(text)
hash_text(text) == [prefix |-> "sha256:", hex |-> Sha256Hex(as_bytes(text))]

\* What Uuid::new_v4().to_string() can return: hyphenated random identifiers.
Uuids ==
    {<<"3", "f", "2", "b", "8", "c", "1", "e", "-", "5", "d", "4", "a", "-", "4", "e", "6", "f", "-", "9", "a", "7", "b", "-", "0", "c", "1", "d", "2", "e", "3", "f", "4", "a", "5", "b">>,
     <<"a", "1", "b", "2", "c", "3", "d", "4", "-", "e", "5", "f", "6", "-", "4", "a", "7", "b", "-", "8", "c", "9", "d", "-", "0", "e", "1", "f", "2", "a", "3", "b", "4", "c", "5", "d">>}

\* generate_receipt_id without replace("-", "").
generate_receipt_id_KeepsHyphens(uuid) == <<"r", "c", "p", "t", "_">> \o uuid

\* pub fn generate_receipt_id(), uuid being the value Uuid::new_v4() returned.
generate_receipt_id(uuid) ==
    <<"r", "c", "p", "t", "_">> \o SelectSeq(uuid, LAMBDA c : c # "-")

(***************************************************************************)
(* The Tork engine                                                         *)
(***************************************************************************)
GovernanceAction == {"Allow", "Deny", "Redact", "Escalate"}

PolicyVersions == {"1.0.0", "2.0.0"}

TorkConfig == [policy_version : PolicyVersions, default_action : GovernanceAction]

\* impl Default for TorkConfig
DefaultConfig == [policy_version |-> "1.0.0", default_action |-> "Redact"]

\* TorkStats::default()
DefaultStats ==
    [total_calls |-> 0, total_pii_detected |-> 0, total_processing_time_ns |-> 0,
     action_counts |-> [allow |-> 0, deny |-> 0, redact |-> 0, escalate |-> 0]]

\* Bound of the model: govern is called while total_calls < MaxCalls.
MaxCalls == 2

\* The values start_time.elapsed().as_nanos() as u64 takes in the model.
ElapsedNanos == {0, 40000}

\* The texts govern and the helpers are called with.
Inputs ==
    {<<>>,
     <<"H", "e", "l", "l", "o">>,
     <<"S", "S", "N", ":", " ", "1", "2", "3", "-", "4", "5", "-", "6", "7", "8", "9">>,
     <<"1", "2", "3", "-", "4", "5", "-", "6", "7", "8", "9", "@", "x", ".", "c", "o", "m">>}

\* The locals of detect_pii_internal after its loop, on the inputs, evaluated once.
InternalDetection == [text \in Inputs |-> ScanLoop(patterns, 1, text, ScanStart(text))]

\* The locals of detect_pii after its loop, on the inputs, evaluated once.
StandaloneDetection ==
    [text \in Inputs |-> ScanLoop(get_pii_patterns, 1, text, ScanStart(text))]

NoValue == [kind |-> "none"]

\* No detection loop is running.
Idle == [pc |-> "idle"]

\* Decide with the redacted text returned whenever PII is found, whatever the action.
Decide_AlwaysRedacted(cfg, pii, input) ==
    IF pii.has_pii
    THEN [action |-> cfg.default_action, output |-> pii.redacted_text]
    ELSE [action |-> "Allow", output |-> input]

\* Decide with default_action applied also when no PII is found.
Decide_IgnoresHasPii(cfg, pii, input) ==
    [action |-> cfg.default_action,
     output |-> IF cfg.default_action = "Redact" THEN pii.redacted_text ELSE input]

\* Decide with Redact hard-wired as the action for PII.
Decide_PiiAlwaysRedacts(cfg, pii, input) ==
    IF pii.has_pii
    THEN [action |-> "Redact", output |-> pii.redacted_text]
    ELSE [action |-> "Allow", output |-> input]

\* The (action, output) pair chosen by govern.
Decide(cfg, pii, input) ==
    IF pii.has_pii
    THEN [action |-> cfg.default_action,
          output |-> IF cfg.default_action = "Redact" THEN pii.redacted_text ELSE input]
    ELSE [action |-> "Allow", output |-> input]

\* Receipt with output_hash computed from the input instead of the output.
Receipt_OutputHashOfInput(cfg, input, decision, uuid, processing_time_ns) ==
    [receipt_id |-> generate_receipt_id(uuid),
     input_hash |-> hash_text(input),
     output_hash |-> hash_text(input),
     action |-> decision.action,
     policy_version |-> cfg.policy_version,
     processing_time_ns |-> processing_time_ns]

\* The GovernanceReceipt built by govern.
Receipt(cfg, input, decision, uuid, processing_time_ns) ==
    [receipt_id |-> generate_receipt_id(uuid),
     input_hash |-> hash_text(input),
     output_hash |-> hash_text(decision.output),
     action |-> decision.action,
     policy_version |-> cfg.policy_version,
     processing_time_ns |-> processing_time_ns]

\* The GovernanceResult returned by govern.
GovernanceResultOf(pii, decision, receipt) ==
    [kind |-> "GovernanceResult", action |-> decision.action,
     output |-> decision.output, pii |-> pii, receipt |-> receipt]

GovernanceResult(cfg, input, pii, uuid, processing_time_ns) ==
    GovernanceResultOf(pii, Decide(cfg, pii, input),
                       Receipt(cfg, input, Decide(cfg, pii, input), uuid,
                               processing_time_ns))

\* CountAction without an arm for Escalate.
CountAction_SkipsEscalate(counts, action) ==
    CASE action = "Allow" -> [counts EXCEPT !.allow = @ + 1]
      [] action = "Deny" -> [counts EXCEPT !.deny = @ + 1]
      [] action = "Redact" -> [counts EXCEPT !.redact = @ + 1]
      [] action = "Escalate" -> counts

\* The action counter incremented for an action.
CountAction(counts, action) ==
    CASE action = "Allow" -> [counts EXCEPT !.allow = @ + 1]
      [] action = "Deny" -> [counts EXCEPT !.deny = @ + 1]
      [] action = "Redact" -> [counts EXCEPT !.redact = @ + 1]
      [] action = "Escalate" -> [counts EXCEPT !.escalate = @ + 1]

\* A u64 is held in four limbs of 16 bits, the least significant first.
LimbBase == 65536

U64Limbs == 4

RECURSIVE ToLimbs(_, _)
\* The k low limbs of n.
ToLimbs(n, k) ==
    IF k = 0 THEN <<>> ELSE <<n % LimbBase>> \o ToLimbs(n \div LimbBase, k - 1)

RECURSIVE AddLimbs(_, _, _, _)
\* Limbs i.. of a + b + carry; the carry out of the last limb is dropped.
AddLimbs(a, b, i, carry) ==
    IF i > Len(a) THEN <<>>
    ELSE <<(a[i] + b[i] + carry) % LimbBase>>
            \o AddLimbs(a, b, i + 1, (a[i] + b[i] + carry) \div LimbBase)

RECURSIVE FromLimbs(_)
\* The number held in the limbs.
FromLimbs(limbs) ==
    IF limbs = <<>> THEN 0
    ELSE IF \A i \in DOMAIN limbs : limbs[i] = 0 THEN 0
    ELSE Head(limbs) + LimbBase * FromLimbs(Tail(limbs))

\* The addition made in a counter of 16 bits.
AddU64_SixteenBits(a, b) == FromLimbs(AddLimbs(ToLimbs(a, 1), ToLimbs(b, 1), 1, 0))

\* a += b on u64 values: the sum in 64 bits.
AddU64(a, b) == FromLimbs(AddLimbs(ToLimbs(a, U64Limbs), ToLimbs(b, U64Limbs), 1, 0))

\* UpdateStats with total_pii_detected counting matches instead of calls.
UpdateStats_CountsMatches(st, pii, action, processing_time_ns) ==
    [total_calls |-> st.total_calls + 1,
     total_pii_detected |-> st.total_pii_detected + pii.count,
     total_processing_time_ns |-> AddU64(st.total_processing_time_ns, processing_time_ns),
     action_counts |-> CountAction(st.action_counts, action)]

\* UpdateStats that never counts a call with PII.
UpdateStats_SkipsPiiCount(st, pii, action, processing_time_ns) ==
    [total_calls |-> st.total_calls + 1,
     total_pii_detected |-> st.total_pii_detected,
     total_processing_time_ns |-> AddU64(st.total_processing_time_ns, processing_time_ns),
     action_counts |-> CountAction(st.action_counts, action)]

\* The statistics after a govern call.
UpdateStats(st, pii, action, processing_time_ns) ==
    [total_calls |-> st.total_calls + 1,
     total_pii_detected |-> IF pii.has_pii THEN st.total_pii_detected + 1
                            ELSE st.total_pii_detected,
     total_processing_time_ns |-> AddU64(st.total_processing_time_ns, processing_time_ns),
     action_counts |-> CountAction(st.action_counts, action)]

\* Tork::new() or Tork::with_config(config).
Init ==
    /\ config \in TorkConfig
    /\ stats = DefaultStats
    /\ result = NoValue
    /\ op = [name |-> IF config = DefaultConfig THEN "new" ELSE "with_config"]
    /\ scan = Idle
    /\ mutex = 0
    /\ calls = <<>>

\* govern that fails on the empty input instead of returning a result.
Govern_RejectsEmptyInput(input, processing_time_ns, uuid, types) ==
    /\ stats.total_calls < MaxCalls
    /\ input # <<>>
    /\ result' = GovernanceResult(config, input,
                                  DetectionResult(InternalDetection[input], types),
                                  uuid, processing_time_ns)
    /\ stats' = UpdateStats(stats, result'.pii, result'.action, processing_time_ns)
    /\ op' = [name |-> "govern", input |-> input, uuid |-> uuid]
    /\ UNCHANGED <<config, scan>>
    /\ UNCHANGED shared

\* pub fn govern(&mut self, input); processing_time_ns is the time measured,
\* uuid the identifier drawn and types the vector collected from the HashSet
\* during the call.
Govern(input, processing_time_ns, uuid, types) ==
    /\ stats.total_calls < MaxCalls
    /\ result' = GovernanceResult(config, input,
                                  DetectionResult(InternalDetection[input], types),
                                  uuid, processing_time_ns)
    /\ stats' = UpdateStats(stats, result'.pii, result'.action, processing_time_ns)
    /\ op' = [name |-> "govern", input |-> input, uuid |-> uuid]
    /\ UNCHANGED <<config, scan>>
    /\ UNCHANGED shared

\* pub fn get_stats(&self)
GetStats ==
    /\ result' = [kind |-> "TorkStats", value |-> stats]
    /\ op' = [name |-> "get_stats"]
    /\ UNCHANGED <<config, stats, scan>>
    /\ UNCHANGED shared

\* reset_stats that zeroes the totals and forgets the action counters.
ResetStats_KeepsActionCounts ==
    /\ stats' = [DefaultStats EXCEPT !.action_counts = stats.action_counts]
    /\ op' = [name |-> "reset_stats", calls_before |-> stats.total_calls]
    /\ UNCHANGED <<config, result, scan>>
    /\ UNCHANGED shared

\* pub fn reset_stats(&mut self)
ResetStats ==
    /\ stats' = DefaultStats
    /\ op' = [name |-> "reset_stats", calls_before |-> stats.total_calls]
    /\ UNCHANGED <<config, result, scan>>
    /\ UNCHANGED shared

\* pub fn get_config(&self)
GetConfig ==
    /\ result' = [kind |-> "TorkConfig", value |-> config]
    /\ op' = [name |-> "get_config"]
    /\ UNCHANGED <<config, stats, scan>>
    /\ UNCHANGED shared

\* set_config that replaces default_action and keeps the old policy_version.
SetConfig_KeepsPolicyVersion(new_config) ==
    /\ config' = [new_config EXCEPT !.policy_version = config.policy_version]
    /\ op' = [name |-> "set_config", config |-> new_config]
    /\ UNCHANGED <<stats, result, scan>>
    /\ UNCHANGED shared

\* set_config that rebuilds the engine, statistics included.
SetConfig_ResetsStats(new_config) ==
    /\ config' = new_config
    /\ stats' = DefaultStats
    /\ op' = [name |-> "set_config", config |-> new_config]
    /\ UNCHANGED <<result, scan>>
    /\ UNCHANGED shared

\* pub fn set_config(&mut self, config)
SetConfig(new_config) ==
    /\ config' = new_config
    /\ op' = [name |-> "set_config", config |-> new_config]
    /\ UNCHANGED <<stats, result, scan>>
    /\ UNCHANGED shared

\* The standalone helper detect_pii(text), called beside the engine.
DetectPii(text, types) ==
    /\ result' = [kind |-> "PIIDetectionResult",
                  value |-> DetectionResult(StandaloneDetection[text], types)]
    /\ op' = [name |-> "detect_pii", input |-> text]
    /\ UNCHANGED <<config, stats, scan>>
    /\ UNCHANGED shared

\* The standalone helper hash_text(text).
HashText(text) ==
    /\ result' = [kind |-> "hash", value |-> hash_text(text)]
    /\ op' = [name |-> "hash_text", input |-> text]
    /\ UNCHANGED <<config, stats, scan>>
    /\ UNCHANGED shared

\* The standalone helper generate_receipt_id().
GenerateReceiptId(uuid) ==
    /\ result' = [kind |-> "receipt_id", value |-> generate_receipt_id(uuid)]
    /\ op' = [name |-> "generate_receipt_id", uuid |-> uuid]
    /\ UNCHANGED <<config, stats, scan>>
    /\ UNCHANGED shared

Next ==
    \/ \E input \in Inputs, t \in ElapsedNanos, uuid \in Uuids :
          \E types \in Collect(InternalDetection[input].detected_types) :
             Govern(input, t, uuid, types)
    \/ GetStats
    \/ ResetStats
    \/ GetConfig
    \/ \E c \in TorkConfig : SetConfig(c)
    \/ \E text \in Inputs :
          \E types \in Collect(StandaloneDetection[text].detected_types) :
             DetectPii(text, types)
    \/ \E text \in Inputs : HashText(text)
    \/ \E uuid \in Uuids : GenerateReceiptId(uuid)

Spec == Init /\ [][Next]_vars

(***************************************************************************)
(* The detection loop, one pattern at a time, on texts made of tokens      *)
(***************************************************************************)
\* Pieces of text: an SSN, the end of an e-mail address, a second SSN, a
\* passport or licence number, a non-ASCII letter, a word, a card number,
\* a street address.
Tokens ==
    <<<<"1", "2", "3", "-", "4", "5", "-", "6", "7", "8", "9">>,
      <<"@", "x", ".", "c", "o", "m">>,
      <<" ", "9", "8", "7", "-", "6", "5", "-", "4", "3", "2", "1">>,
      <<"A", "1", "2", "3", "4", "5", "6", "7", "8">>,
      <<"U4E16">>,
      <<"h", "i", " ">>,
      <<"4", "1", "1", "1", "1", "1", "1", "1", "1", "1", "1", "1", "1", "1", "1", "1">>,
      <<"1", "2", " ", "M", "a", "i", "n", " ", "S", "t">>>>

\* Bound of the model: a text is made of at most MaxTokens tokens.
MaxTokens == 2

RECURSIVE TextsOf(_)
\* The texts made of exactly n tokens.
TextsOf(n) ==
    IF n = 0 THEN {<<>>}
    ELSE {t \o Tokens[k] : t \in TextsOf(n - 1), k \in DOMAIN Tokens}

Texts == UNION {TextsOf(n) : n \in 0..MaxTokens}

\* detect_pii(text) is entered: the locals before the loop.
InitDetect ==
    /\ config = DefaultConfig
    /\ stats = DefaultStats
    /\ result = NoValue
    /\ mutex = 0
    /\ calls = <<>>
    /\ \E text \in Texts :
         /\ op = [name |-> "detect_pii", input |-> text]
         /\ scan = [pc |-> "loop", text |-> text, k |-> 1, acc |-> ScanStart(text)]

\* One iteration of `for pattern in &patterns`.
ScanNext ==
    /\ scan.pc = "loop"
    /\ scan.k <= Len(get_pii_patterns)
    /\ scan' = [scan EXCEPT !.k = @ + 1,
                            !.acc = ScanPattern(get_pii_patterns[scan.k], scan.text, @)]
    /\ UNCHANGED <<config, stats, result, op>>
    /\ UNCHANGED shared

\* The loop is over: the PIIDetectionResult is returned.
ScanReturn ==
    /\ scan.pc = "loop"
    /\ scan.k > Len(get_pii_patterns)
    /\ scan' = [scan EXCEPT !.pc = "done"]
    /\ \E types \in Collect(scan.acc.detected_types) :
          result' = [kind |-> "PIIDetectionResult",
                     value |-> DetectionResult(scan.acc, types)]
    /\ UNCHANGED <<config, stats, op>>
    /\ UNCHANGED shared

NextDetect == ScanNext \/ ScanReturn

SpecDetect == InitDetect /\ [][NextDetect]_vars

(***************************************************************************)
(* Middleware (src/src/middleware): handles that share one engine behind   *)
(* a Mutex.  The three adapters have the same process method.              *)
(***************************************************************************)
\* Option::Some
Some(v) == [kind |-> "some", value |-> v]

\* str::starts_with
starts_with(s, prefix) == Len(prefix) <= Len(s) /\ SubSeq(s, 1, Len(prefix)) = prefix

\* impl Default for MiddlewareConfig
DefaultMiddlewareConfig ==
    [protected_paths |-> <<<<"/", "a", "p", "i", "/">>>>,
     skip_paths |-> <<>>,
     content_fields |-> <<"content", "message", "text", "prompt", "query", "input">>]

\* The configuration of the handles: the default one with a skip prefix.
HandleConfig ==
    [DefaultMiddlewareConfig EXCEPT
        !.skip_paths = <<<<"/", "a", "p", "i", "/", "h", "e", "a", "l", "t", "h">>>>]

\* pub fn should_skip_path(path, config)
should_skip_path(path, cfg) ==
    \E k \in DOMAIN cfg.skip_paths : starts_with(path, cfg.skip_paths[k])

\* pub fn should_protect_path(path, config)
should_protect_path(path, cfg) ==
    \E k \in DOMAIN cfg.protected_paths : starts_with(path, cfg.protected_paths[k])

\* A candidate field that yields the content: a non-empty string of the object.
Yields(map, field) ==
    /\ field \in DOMAIN map
    /\ map[field].type = "string"
    /\ map[field].s # <<>>

\* extract_content that returns the empty text where no candidate yields.
extract_content_DefaultsToEmpty(body, cfg) ==
    IF body.json # "object" THEN Some(<<>>)
    ELSE IF \A k \in DOMAIN cfg.content_fields : ~Yields(body.map, cfg.content_fields[k])
         THEN Some(<<>>)
         ELSE Some(body.map[cfg.content_fields[
                  CHOOSE k \in DOMAIN cfg.content_fields :
                     /\ Yields(body.map, cfg.content_fields[k])
                     /\ \A j \in 1..(k - 1) : ~Yields(body.map, cfg.content_fields[j])]].s)

\* extract_content that returns the last candidate field that yields.
extract_content_LastWins(body, cfg) ==
    IF body.json # "object" THEN NoValue
    ELSE IF \A k \in DOMAIN cfg.content_fields : ~Yields(body.map, cfg.content_fields[k])
         THEN NoValue
         ELSE Some(body.map[cfg.content_fields[
                  CHOOSE k \in DOMAIN cfg.content_fields :
                     /\ Yields(body.map, cfg.content_fields[k])
                     /\ \A j \in (k + 1)..Len(cfg.content_fields) :
                           ~Yields(body.map, cfg.content_fields[j])]].s)

\* pub fn extract_content(body, config); body is what serde_json::from_str
\* makes of the request body: no JSON value, a value that is no object, or
\* an object (a map from field names to values).
extract_content(body, cfg) ==
    IF body.json # "object" THEN NoValue
    ELSE IF \A k \in DOMAIN cfg.content_fields : ~Yields(body.map, cfg.content_fields[k])
         THEN NoValue
         ELSE Some(body.map[cfg.content_fields[
                  CHOOSE k \in DOMAIN cfg.content_fields :
                     /\ Yields(body.map, cfg.content_fields[k])
                     /\ \A j \in 1..(k - 1) : ~Yields(body.map, cfg.content_fields[j])]].s)

\* Bypassed in which a protect prefix wins over a skip prefix.
Bypassed_ProtectWins(request, cfg) ==
    \/ request.method \notin {"POST", "PUT", "PATCH"}
    \/ ~should_protect_path(request.path, cfg)
    \/ extract_content(request.body, cfg) = NoValue

\* process returns None before it reaches the engine.
Bypassed(request, cfg) ==
    \/ request.method \notin {"POST", "PUT", "PATCH"}
    \/ should_skip_path(request.path, cfg)
    \/ ~should_protect_path(request.path, cfg)
    \/ extract_content(request.body, cfg) = NoValue

\* Bound of the model: the number of callers that hold a handle on the engine.
NumCallers == 2

Callers == 1..NumCallers

ApiChat == <<"/", "a", "p", "i", "/", "c", "h", "a", "t">>

\* A JSON string value and a JSON number.
JsonString(s) == [type |-> "string", s |-> s]

JsonNumber == [type |-> "number", s |-> <<>>]

Hello == <<"H", "e", "l", "l", "o">>

SsnText ==
    <<"S", "S", "N", ":", " ", "1", "2", "3", "-", "4", "5", "-", "6", "7", "8", "9">>

\* The body {"content": "Hello"}.
HelloBody == [json |-> "object", map |-> [content |-> JsonString(Hello)]]

\* The requests of the model.  Governed: PII in the first candidate field
\* and other text in the second; an empty first candidate, a second one that
\* is a number and text in the third; text in the second candidate only.
\* Not governed: GET; a path under the skip prefix (and under the protect
\* prefix); a path under no protect prefix; a body that is no JSON; a JSON
\* array; an object without any candidate field.
Requests ==
    {[method |-> "POST", path |-> ApiChat,
      body |-> [json |-> "object",
                map |-> [content |-> JsonString(SsnText), message |-> JsonString(Hello)]]],
     [method |-> "PATCH", path |-> ApiChat,
      body |-> [json |-> "object",
                map |-> [content |-> JsonString(<<>>), message |-> JsonNumber,
                         text |-> JsonString(Hello)]]],
     [method |-> "PUT", path |-> ApiChat,
      body |-> [json |-> "object", map |-> [message |-> JsonString(SsnText)]]],
     [method |-> "GET", path |-> ApiChat, body |-> HelloBody],
     [method |-> "PUT",
      path |-> <<"/", "a", "p", "i", "/", "h", "e", "a", "l", "t", "h", "/", "1">>,
      body |-> HelloBody],
     [method |-> "POST", path |-> <<"/", "h", "e", "a", "l", "t", "h">>,
      body |-> HelloBody],
     [method |-> "POST", path |-> ApiChat, body |-> [json |-> "invalid", map |-> <<>>]],
     [method |-> "POST", path |-> ApiChat, body |-> [json |-> "array", map |-> <<>>]],
     [method |-> "POST", path |-> ApiChat,
      body |-> [json |-> "object", map |-> [other |-> JsonString(SsnText)]]]}

\* The configurations installed through the handle.
SharedConfigs == {DefaultConfig, [policy_version |-> "2.0.0", default_action |-> "Deny"]}

\* The calls made on the engine itself through handle.tork().lock().
EngineCalls ==
    {[name |-> "set_config", config |-> c] : c \in SharedConfigs}
       \cup {[name |-> "reset_stats"], [name |-> "get_stats"]}

\* A caller that has made no call yet.
NotCalled == [pc |-> "idle", call |-> NoValue, local |-> NoValue, ret |-> NoValue]

\* create_shared_tork(): Arc::new(Mutex::new(Tork::new())), with its handles.
InitShared ==
    /\ config = DefaultConfig
    /\ stats = DefaultStats
    /\ result = NoValue
    /\ op = [name |-> "create_shared_tork"]
    /\ scan = Idle
    /\ mutex = 0
    /\ calls = [t \in Callers |-> NotCalled]

engine == <<config, stats, result, op, scan>>

\* process(method, path, body) that returns None at one of its early returns.
ProcessBypass(t, request) ==
    /\ calls[t].pc = "idle"
    /\ Bypassed(request, HandleConfig)
    /\ calls' = [calls EXCEPT ![t] =
                   [pc |-> "returned", call |-> [name |-> "process", request |-> request],
                    local |-> NoValue, ret |-> NoValue]]
    /\ UNCHANGED <<engine, mutex>>

\* process(method, path, body) up to self.tork.lock(): content is extracted.
ProcessEnter(t, request) ==
    /\ calls[t].pc = "idle"
    /\ ~Bypassed(request, HandleConfig)
    /\ calls' = [calls EXCEPT ![t] =
                   [pc |-> "locking", call |-> [name |-> "process", request |-> request],
                    local |-> [content |-> extract_content(request.body, HandleConfig).value],
                    ret |-> NoValue]]
    /\ UNCHANGED <<engine, mutex>>

\* A caller starts a call on the engine itself: handle.tork().lock().
EngineEnter(t, call) ==
    /\ calls[t].pc = "idle"
    /\ calls' = [calls EXCEPT ![t] =
                   [pc |-> "locking", call |-> call, local |-> NoValue, ret |-> NoValue]]
    /\ UNCHANGED <<engine, mutex>>

\* lock() that returns the guard although another caller holds it.
Lock_NoExclusion(t) ==
    /\ calls[t].pc = "locking"
    /\ mutex' = t
    /\ calls' = [calls EXCEPT ![t].pc = "locked"]
    /\ UNCHANGED engine

\* self.tork.lock().unwrap(): returns the guard once no caller holds it.
Lock(t) ==
    /\ calls[t].pc = "locking"
    /\ mutex = 0
    /\ mutex' = t
    /\ calls' = [calls EXCEPT ![t].pc = "locked"]
    /\ UNCHANGED engine

\* govern, first part: detection and the choice of (action, output).
GovernDecide(t) ==
    /\ calls[t].pc = "locked"
    /\ calls[t].call.name = "process"
    /\ \E types \in Collect(InternalDetection[calls[t].local.content].detected_types) :
          calls' = [calls EXCEPT
             ![t].pc = "decided",
             ![t].local =
                 [content |-> @.content,
                  pii |-> DetectionResult(InternalDetection[@.content], types),
                  decision |-> Decide(config,
                                      DetectionResult(InternalDetection[@.content], types),
                                      @.content)]]
    /\ UNCHANGED <<engine, mutex>>

\* govern, second part: the elapsed time and the receipt.
GovernReceipt(t, processing_time_ns, uuid) ==
    /\ calls[t].pc = "decided"
    /\ calls' = [calls EXCEPT
          ![t].pc = "receipted",
          ![t].local =
              [content |-> @.content, pii |-> @.pii, decision |-> @.decision,
               receipt |-> Receipt(config, @.content, @.decision, uuid,
                                   processing_time_ns)]]
    /\ UNCHANGED <<engine, mutex>>

\* GovernTotals that drops the guard before the action counter is updated.
GovernTotals_DropsGuard(t) ==
    /\ calls[t].pc = "receipted"
    /\ stats' = [UpdateStats(stats, calls[t].local.pii, calls[t].local.decision.action,
                             calls[t].local.receipt.processing_time_ns)
                   EXCEPT !.action_counts = stats.action_counts]
    /\ calls' = [calls EXCEPT ![t].pc = "counting"]
    /\ mutex' = 0
    /\ UNCHANGED <<config, result, op, scan>>

\* govern, third part: total_calls, total_pii_detected, total_processing_time_ns.
GovernTotals(t) ==
    /\ calls[t].pc = "receipted"
    /\ stats' = [UpdateStats(stats, calls[t].local.pii, calls[t].local.decision.action,
                             calls[t].local.receipt.processing_time_ns)
                   EXCEPT !.action_counts = stats.action_counts]
    /\ calls' = [calls EXCEPT ![t].pc = "counting"]
    /\ UNCHANGED <<config, result, op, scan, mutex>>

\* govern, last part: the action counter and the GovernanceResult.
GovernCount(t) ==
    /\ calls[t].pc = "counting"
    /\ stats' = [stats EXCEPT
                   !.action_counts = CountAction(@, calls[t].local.decision.action)]
    /\ calls' = [calls EXCEPT
          ![t].pc = "finished",
          ![t].ret = Some(GovernanceResultOf(calls[t].local.pii, calls[t].local.decision,
                                             calls[t].local.receipt))]
    /\ UNCHANGED <<config, result, op, scan, mutex>>

\* set_config, reset_stats or get_stats under the guard.
EngineCall(t) ==
    /\ calls[t].pc = "locked"
    /\ calls[t].call.name # "process"
    /\ config' = IF calls[t].call.name = "set_config" THEN calls[t].call.config ELSE config
    /\ stats' = IF calls[t].call.name = "reset_stats" THEN DefaultStats ELSE stats
    /\ calls' = [calls EXCEPT
          ![t].pc = "finished",
          ![t].ret = IF calls[t].call.name = "get_stats" THEN Some(stats) ELSE NoValue]
    /\ UNCHANGED <<result, op, scan, mutex>>

\* The call returns and leaves the guard locked (the guard is leaked).
Unlock_KeepsGuard(t) ==
    /\ calls[t].pc = "finished"
    /\ calls' = [calls EXCEPT ![t].pc = "returned"]
    /\ UNCHANGED <<engine, mutex>>

\* The call returns: the guard is dropped, the Mutex unlocked.
Unlock(t) ==
    /\ calls[t].pc = "finished"
    /\ mutex' = 0
    /\ calls' = [calls EXCEPT ![t].pc = "returned"]
    /\ UNCHANGED engine

\* The time measured and the identifier drawn by a govern call on the handle.
SharedElapsed == {40000}

SharedUuids == {CHOOSE uuid \in Uuids : TRUE}

\* The steps of a call that has been entered.
Run(t) ==
    \/ Lock(t)
    \/ GovernDecide(t)
    \/ \E processing_time_ns \in SharedElapsed, uuid \in SharedUuids :
          GovernReceipt(t, processing_time_ns, uuid)
    \/ GovernTotals(t)
    \/ GovernCount(t)
    \/ EngineCall(t)
    \/ Unlock(t)

NextShared ==
    \E t \in Callers :
        \/ \E request \in Requests : ProcessBypass(t, request)
        \/ \E request \in Requests : ProcessEnter(t, request)
        \/ \E call \in EngineCalls : EngineEnter(t, call)
        \/ Run(t)

\* Every caller that can take a step eventually takes one: a thread that is
\* runnable is scheduled, a thread blocked in lock() is woken at an unlock.
SpecShared == InitShared /\ [][NextShared]_vars /\ \A t \in Callers : WF_vars(Run(t))

(***************************************************************************)
(* Properties of govern, the statistics and the configuration (Spec)       *)
(***************************************************************************)
\* The last call was govern: result is its GovernanceResult, op.input its input.
Governed == op.name = "govern"

\* The counter of an action in Statistics.
ActionCount(st, action) ==
    CASE action = "Allow" -> st.action_counts.allow
      [] action = "Deny" -> st.action_counts.deny
      [] action = "Redact" -> st.action_counts.redact
      [] action = "Escalate" -> st.action_counts.escalate

\* C1: in every result of govern, the output is the redacted text when the
\* action is Redact, and the input itself when it is Allow, Deny or Escalate.
C1_OutputFollowsAction ==
    Governed =>
        /\ result.action = "Redact" => result.output = result.pii.redacted_text
        /\ result.action \in {"Allow", "Deny", "Escalate"} => result.output = op.input

\* A Deny result on an input with PII: the output is the input, not the redacted text.
C1_Witness ==
    /\ Governed
    /\ result.action = "Deny"
    /\ result.pii.has_pii
    /\ result.output = op.input
    /\ result.output # result.pii.redacted_text

\* C2: when detection finds no PII, govern returns Allow and the input,
\* whatever default_action is; a Deny, Redact or Escalate result has has_pii.
C2_NoPiiAllows ==
    Governed =>
        /\ ~result.pii.has_pii => result.action = "Allow" /\ result.output = op.input
        /\ result.action \in {"Deny", "Redact", "Escalate"} => result.pii.has_pii

\* A clean, non-empty input governed under default_action = Deny is allowed.
C2_Witness ==
    /\ Governed
    /\ ~result.pii.has_pii
    /\ op.input # <<>>
    /\ config.default_action = "Deny"
    /\ result.action = "Allow"

\* C3: when detection finds PII, the action of the result is the
\* default_action of the configuration the call was made under, and the
\* receipt carries the same action.
C3_PiiTakesDefaultAction ==
    [][(op'.name = "govern" /\ result'.pii.has_pii) =>
          /\ result'.action = config.default_action
          /\ result'.receipt.action = result'.action]_vars

\* An input with PII governed under default_action = Allow.
C3_Witness ==
    /\ Governed
    /\ result.pii.has_pii
    /\ config.default_action = "Allow"
    /\ result.action = "Allow"
    /\ result.receipt.action = "Allow"

\* C6: a govern call adds 1 to total_calls, 1 to total_pii_detected exactly
\* when has_pii, 1 to the counter of the returned action and nothing to the
\* other three, and the receipt's processing time to total_processing_time_ns.
C6_StatsPerCall ==
    [][op'.name = "govern" =>
          /\ stats'.total_calls = stats.total_calls + 1
          /\ stats'.total_pii_detected =
                stats.total_pii_detected + (IF result'.pii.has_pii THEN 1 ELSE 0)
          /\ \A a \in GovernanceAction :
                ActionCount(stats', a) =
                   ActionCount(stats, a) + (IF a = result'.action THEN 1 ELSE 0)
          /\ stats'.total_processing_time_ns =
                stats.total_processing_time_ns + result'.receipt.processing_time_ns]_vars

\* Two calls, the last one on an input with two matches: one PII call counted.
C6_Witness ==
    /\ Governed
    /\ result.pii.count = 2
    /\ result.action = "Deny"
    /\ result.receipt.processing_time_ns > 0
    /\ stats.total_calls = 2
    /\ stats.total_pii_detected = 1
    /\ stats.action_counts = [allow |-> 1, deny |-> 1, redact |-> 0, escalate |-> 0]

\* C7: the receipt of a govern call holds the hash of the input, the hash of
\* the output returned, the action of the result and the policy_version of
\* the configuration the call was made under.
C7_ReceiptFields ==
    [][op'.name = "govern" =>
          /\ result'.receipt.input_hash = hash_text(op'.input)
          /\ result'.receipt.output_hash = hash_text(result'.output)
          /\ result'.receipt.action = result'.action
          /\ result'.receipt.policy_version = config.policy_version]_vars

\* A redacting call under policy version 2.0.0: the two hashes differ.
C7_Witness ==
    /\ Governed
    /\ result.action = "Redact"
    /\ result.output # op.input
    /\ result.receipt.input_hash # result.receipt.output_hash
    /\ result.receipt.policy_version = "2.0.0"

\* C8: reset_stats sets every counter to 0 (the statistics of a fresh engine)
\* and leaves the configuration alone; the next govern call counts from zero.
C8_ResetZeroes ==
    [][/\ op'.name = "reset_stats" =>
            /\ stats'.total_calls = 0
            /\ stats'.total_pii_detected = 0
            /\ stats'.total_processing_time_ns = 0
            /\ \A a \in GovernanceAction : ActionCount(stats', a) = 0
            /\ config' = config
       /\ (op.name = "reset_stats" /\ op'.name = "govern") =>
            /\ stats'.total_calls = 1
            /\ ActionCount(stats', result'.action) = 1]_vars

\* reset_stats called after MaxCalls calls, some of them with PII, on an
\* engine whose configuration is not the default one.
C8_Witness ==
    /\ op.name = "reset_stats"
    /\ op.calls_before = MaxCalls
    /\ result.kind = "GovernanceResult"
    /\ result.pii.has_pii
    /\ stats = DefaultStats
    /\ config # DefaultConfig

\* C9: set_config(c) makes c the configuration of the calls that follow, until
\* the next set_config: govern takes its action and policy_version from it;
\* the result the caller already holds is not changed by set_config.
C9_SetConfigForLaterCalls ==
    [][/\ op'.name = "set_config" => config' = op'.config /\ result' = result
       /\ op'.name # "set_config" => config' = config
       /\ op'.name = "govern" =>
            /\ result'.receipt.policy_version = config.policy_version
            /\ result'.pii.has_pii => result'.action = config.default_action]_vars

\* After set_config the result of the earlier call still carries the action
\* and the policy version of the configuration it was made under.
C9_Witness ==
    /\ op.name = "set_config"
    /\ result.kind = "GovernanceResult"
    /\ result.pii.has_pii
    /\ result.action # config.default_action
    /\ result.receipt.policy_version # config.policy_version

\* C10: the statistics are zero on construction, and only govern and
\* reset_stats change them.
C10_StatsFrame ==
    /\ stats.total_calls = 0 /\ stats.total_pii_detected = 0
    /\ stats.total_processing_time_ns = 0
    /\ \A a \in GovernanceAction : ActionCount(stats, a) = 0
    /\ [][stats' # stats => op'.name \in {"govern", "reset_stats"}]_vars

\* The standalone detect_pii finds PII while the engine has counted calls
\* without PII only.
C10_Witness ==
    /\ op.name = "detect_pii"
    /\ result.value.has_pii
    /\ stats.total_calls = MaxCalls
    /\ stats.total_pii_detected = 0

(***************************************************************************)
(* Properties of detection (SpecDetect).  No token holds a bracket, so the *)
(* brackets of a redacted text are those of the placeholders.              *)
(***************************************************************************)
\* The detection loop has returned: result.value is its PIIDetectionResult.
Detected == scan.pc = "done"

\* Character k of t lies in a placeholder: after a "[" that no "]" has closed.
InPlaceholder(t, k) ==
    \E j \in 1..k : t[j] = "[" /\ \A i \in j..(k - 1) : t[i] # "]"

\* The characters of t outside its placeholders.
OutsidePlaceholders(t) == AtIndices(t, {k \in DOMAIN t : ~InPlaceholder(t, k)})

\* The placeholder of t that opens at position j.
PlaceholderAt(t, j) ==
    Slice(t, j - 1, CHOOSE e \in j..Len(t) : t[e] = "]" /\ \A i \in j..(e - 1) : t[i] # "]")

\* The positions of t where a placeholder opens.
Openings(t) == {j \in DOMAIN t : t[j] = "[" /\ \E e \in j..Len(t) : t[e] = "]"}

\* The placeholders of t, from left to right.
PlaceholdersAmong(t, opens) == [n \in DOMAIN opens |-> PlaceholderAt(t, opens[n])]

Placeholders(t) == PlaceholdersAmong(t, AtIndices([k \in DOMAIN t |-> k], Openings(t)))

\* Character k of text lies in the byte range of the match m.
CoveredBy(text, k, m) ==
    m.start_index <= ByteOffset(text, k - 1) /\ ByteOffset(text, k - 1) < m.end_index

\* The characters of text that no match of matches covers.
Uncovered(text, matches) ==
    AtIndices(text, {k \in DOMAIN text :
                       \A n \in DOMAIN matches : ~CoveredBy(text, k, matches[n])})

\* Two matches that cover a common byte.
Overlap(m1, m2) == m1.start_index < m2.end_index /\ m2.start_index < m1.end_index

\* C4: every recorded match is redacted: what is left of the input outside
\* the placeholders of redacted_text is the input without the characters of
\* the recorded matches.
C4_EveryMatchRedacted ==
    Detected =>
        OutsidePlaceholders(result.value.redacted_text)
            = Uncovered(scan.text, result.value.matches)

\* C5 as claimed: no two recorded matches of different categories cover a
\* common byte of the input.
C5_NoCrossCategoryOverlap ==
    Detected =>
        \A i, j \in DOMAIN result.value.matches :
            result.value.matches[i].pii_type # result.value.matches[j].pii_type
                => ~Overlap(result.value.matches[i], result.value.matches[j])

\* C5 as amended: the replacement of a pattern never touches a placeholder
\* written for an earlier pattern: every iteration of the loop leaves the
\* placeholders already in redacted_text in place, in their order, and adds
\* only placeholders of its own category.  (The recorded matches of
\* different categories may cover common bytes.)
C5_PlaceholdersStay ==
    [][scan'.k = scan.k + 1 =>
          SelectSeq(Placeholders(scan'.acc.redacted_text),
                    LAMBDA ph : ph # redaction(get_pii_patterns[scan.k].pii_type))
             = Placeholders(scan.acc.redacted_text)]_vars

\* A passport number, recorded as Passport and as DriversLicense over the
\* same bytes, in a text where an SSN had been replaced before.
C5_Witness ==
    /\ Detected
    /\ \E i, j \in DOMAIN result.value.matches :
          /\ result.value.matches[i].pii_type = "Passport"
          /\ result.value.matches[j].pii_type = "DriversLicense"
          /\ Overlap(result.value.matches[i], result.value.matches[j])
    /\ Placeholders(result.value.redacted_text)
          = <<redaction("Passport"), redaction("Ssn")>>

\* Length of text in bytes.
ByteLen(text) == ByteOffset(text, Len(text))

\* The characters of text that lie in the byte range [start, end).
ByteSlice(text, start, end) ==
    AtIndices(text, {k \in DOMAIN text :
                       start <= ByteOffset(text, k - 1) /\ ByteOffset(text, k) <= end})

\* C14: every recorded match refers to the original input: start < end,
\* end is at most the length of the input in bytes, and value is the input
\* between the two byte offsets, whatever has been replaced in the working
\* copy.
C14_MatchesReferToInput ==
    scan.pc # "idle" =>
        \A n \in DOMAIN scan.acc.matches :
            /\ scan.acc.matches[n].start_index < scan.acc.matches[n].end_index
            /\ scan.acc.matches[n].end_index <= ByteLen(scan.text)
            /\ scan.acc.matches[n].value
                  = ByteSlice(scan.text, scan.acc.matches[n].start_index,
                              scan.acc.matches[n].end_index)

\* An e-mail address recorded over bytes [0, 17) of the input after its
\* first 11 bytes had been replaced in the working copy.
C14_Witness ==
    /\ Detected
    /\ \E n \in DOMAIN result.value.matches :
          /\ result.value.matches[n].pii_type = "Email"
          /\ result.value.matches[n].start_index = 0
          /\ result.value.matches[n].end_index = 17
    /\ Placeholders(result.value.redacted_text) = <<redaction("Ssn")>>

\* C15: in a DetectionResult, has_pii is true exactly when matches is not
\* empty, count is the length of matches, and types holds each category of
\* matches exactly once and nothing else.
C15_ResultFieldsAgree ==
    Detected =>
        /\ result.value.has_pii <=> result.value.matches # <<>>
        /\ result.value.count = Len(result.value.matches)
        /\ \A i, j \in DOMAIN result.value.types :
              i # j => result.value.types[i] # result.value.types[j]
        /\ {result.value.types[i] : i \in DOMAIN result.value.types}
              = {result.value.matches[n].pii_type : n \in DOMAIN result.value.matches}

\* One occurrence matched by two categories, beside an SSN: it counts twice,
\* three matches in three categories.
C15_Witness ==
    /\ Detected
    /\ result.value.count = 3
    /\ Len(result.value.types) = 3
    /\ \E i, j \in DOMAIN result.value.matches :
          /\ result.value.matches[i].pii_type # result.value.matches[j].pii_type
          /\ result.value.matches[i].start_index = result.value.matches[j].start_index
          /\ result.value.matches[i].end_index = result.value.matches[j].end_index

\* No pattern of the registry matches in text.
NoPatternMatches(text) ==
    \A k \in DOMAIN get_pii_patterns : FindIter(get_pii_patterns[k].regex, text, 0) = <<>>

\* C16: for an input in which no pattern of the registry matches, the empty
\* text included, detect_pii returns has_pii = false, count = 0, no match
\* and redacted_text equal to the input.
C16_NoMatchLeavesInput ==
    (Detected /\ NoPatternMatches(scan.text)) =>
        /\ ~result.value.has_pii
        /\ result.value.count = 0
        /\ result.value.matches = <<>>
        /\ result.value.redacted_text = scan.text

\* A text that is not empty, holds the end of an e-mail address, and in which
\* no pattern matches.
C16_Witness ==
    /\ Detected
    /\ scan.text = <<"h", "i", " ", "@", "x", ".", "c", "o", "m">>
    /\ NoPatternMatches(scan.text)

\* Position of a category in the registry.
RegistryIndex(pii_type) ==
    CHOOSE k \in DOMAIN get_pii_patterns : get_pii_patterns[k].pii_type = pii_type

\* The matches of ms that belong to the category pii_type.
OfCategory(ms, pii_type) == SelectSeq(ms, LAMBDA m : m.pii_type = pii_type)

\* C17: matches is in registry order: the matches of a category earlier in
\* the registry come before those of a later one; within a category every
\* occurrence found in the input is kept, by increasing start offset and
\* without overlap.
C17_RegistryOrder ==
    Detected =>
        /\ \A i, j \in DOMAIN result.value.matches :
              i < j =>
                /\ RegistryIndex(result.value.matches[i].pii_type)
                      <= RegistryIndex(result.value.matches[j].pii_type)
                /\ result.value.matches[i].pii_type = result.value.matches[j].pii_type
                      => result.value.matches[i].end_index
                            <= result.value.matches[j].start_index
        /\ \A k \in DOMAIN get_pii_patterns :
              Len(OfCategory(result.value.matches, get_pii_patterns[k].pii_type))
                 = Len(FindIter(get_pii_patterns[k].regex, scan.text, 0))

\* An SSN recorded before a passport number that stands before it in the text.
C17_Witness ==
    /\ Detected
    /\ Len(result.value.matches) >= 2
    /\ result.value.matches[1].pii_type = "Ssn"
    /\ result.value.matches[2].pii_type = "Passport"
    /\ result.value.matches[2].end_index <= result.value.matches[1].start_index

(***************************************************************************)
(* Properties of the handles that share one engine (SpecShared)            *)
(***************************************************************************)
\* The callers whose process call has governed its content and returned.
GovernedCallers ==
    {t \in Callers : calls[t].call # NoValue /\ calls[t].call.name = "process"
                       /\ calls[t].pc = "returned" /\ calls[t].ret # NoValue}

\* The caller t is past lock() and has not returned yet.
InCall(t) == calls[t].pc \in {"locked", "decided", "receipted", "counting", "finished"}

\* A reset_stats call has acted.
ResetDone ==
    \E t \in Callers : calls[t].call # NoValue /\ calls[t].call.name = "reset_stats"
                         /\ calls[t].pc \in {"finished", "returned"}

SumOfActionCounts(st) ==
    st.action_counts.allow + st.action_counts.deny + st.action_counts.redact
       + st.action_counts.escalate

\* C11: a caller is inside govern (or another engine call) only while it
\* holds the guard; the statistics any caller reads through the handle have
\* total_calls equal to the sum of the action counters; and once no call is
\* running, with no reset_stats made, total_calls is the number of governed
\* requests that have returned.
C11_GovernUnderLock ==
    /\ \A t \in DOMAIN calls : InCall(t) => mutex = t
    /\ \A t \in DOMAIN calls :
          (calls[t].call # NoValue /\ calls[t].call.name = "get_stats"
             /\ calls[t].ret # NoValue)
            => calls[t].ret.value.total_calls = SumOfActionCounts(calls[t].ret.value)
    /\ (DOMAIN calls # {} /\ mutex = 0 /\ ~ResetDone)
          => /\ stats.total_calls = Cardinality(GovernedCallers)
             /\ SumOfActionCounts(stats) = Cardinality(GovernedCallers)

\* A caller has incremented total_calls and not yet the action counter,
\* while another caller waits in lock() to read the statistics.
C11_Witness ==
    \E t, u \in DOMAIN calls :
        /\ calls[t].pc = "counting"
        /\ stats.total_calls = SumOfActionCounts(stats) + 1
        /\ calls[u].pc = "locking"
        /\ calls[u].call.name = "get_stats"

\* C12: every GovernanceResult returned through the handle for an input with
\* PII has the default_action and the policy_version of one and the same
\* configuration among those the engine has had.
C12_OneConfigPerResult ==
    \A t \in DOMAIN calls :
        (calls[t].call # NoValue /\ calls[t].call.name = "process"
           /\ calls[t].ret # NoValue /\ calls[t].ret.value.pii.has_pii)
          => \E c \in SharedConfigs :
                /\ calls[t].ret.value.action = c.default_action
                /\ calls[t].ret.value.receipt.action = c.default_action
                /\ calls[t].ret.value.receipt.policy_version = c.policy_version

\* A govern call has chosen its action and not yet read policy_version,
\* while a set_config call with another configuration waits in lock().
C12_Witness ==
    \E t, u \in DOMAIN calls :
        /\ calls[t].pc = "decided"
        /\ calls[t].local.pii.has_pii
        /\ calls[u].pc = "locking"
        /\ calls[u].call.name = "set_config"
        /\ calls[u].call.config # config

\* C13: every call made through a handle returns: a caller that has
\* returned does not hold the guard, and from some point on no caller is
\* inside a call (at lock() or past it): each caller has either returned or
\* never entered, so none waits forever.
C13_EveryCallReturns ==
    /\ [](\A t \in DOMAIN calls : calls[t].pc = "returned" => mutex # t)
    /\ <>[](\A t \in DOMAIN calls : calls[t].pc \in {"idle", "returned"})

\* A process call has returned its result and the guard has passed to
\* another caller's process call, which had to wait for it.
C13_Witness ==
    \E t, u \in DOMAIN calls :
        /\ calls[u].pc = "returned"
        /\ calls[u].ret # NoValue
        /\ calls[u].call.name = "process"
        /\ mutex = t
        /\ calls[t].call.name = "process"
        /\ calls[t].pc = "counting"

(***************************************************************************)
(* Properties of the receipt ids and of the totality of govern (Spec)      *)
(***************************************************************************)
\* The call o returned a receipt id (alone or in a receipt).
IssuesId(o) == o.name \in {"govern", "generate_receipt_id"}

\* The receipt id in the value r returned by such a call.
ReceiptIdOf(r) == IF r.kind = "GovernanceResult" THEN r.receipt.receipt_id ELSE r.value

C20_GovernTotal ==
    /\ (calls = <<>> /\ scan = Idle /\ stats.total_calls < MaxCalls)
          => \A input \in Inputs :
                ENABLED (\E t \in ElapsedNanos, uuid \in Uuids :
                            \E types \in Collect(InternalDetection[input].detected_types) :
                               Govern(input, t, uuid, types))
    /\ Governed => /\ result.kind = "GovernanceResult"
                   /\ result.action \in GovernanceAction
                   /\ result.receipt.action = result.action

\* govern has returned a result for the empty input, after set_config and
\* reset_stats and with an action other than the default one configured.
C20_Witness ==
    /\ Governed
    /\ op.input = <<>>
    /\ result.kind = "GovernanceResult"
    /\ config.default_action = "Escalate"
    /\ stats.total_calls = 1

(***************************************************************************)
(* Invariants of the statistics (Spec)                                     *)
(***************************************************************************)
\* C24: in every reachable state of the engine total_calls is the sum of the
\* four action counters.
C24_CallsAreActionCounts ==
    stats.total_calls
       = stats.action_counts.allow + stats.action_counts.deny
            + stats.action_counts.redact + stats.action_counts.escalate

\* Two calls counted under two actions, set_config having changed
\* default_action between them.
C24_Witness ==
    /\ stats.total_calls = 2
    /\ stats.action_counts.deny = 1
    /\ stats.action_counts.escalate = 1

\* C25: in every reachable state of the engine
\* deny + redact + escalate <= total_pii_detected <= total_calls, and the
\* allow counter is at least total_calls - total_pii_detected.
C25_PiiBetweenActionsAndCalls ==
    /\ stats.action_counts.deny + stats.action_counts.redact
          + stats.action_counts.escalate <= stats.total_pii_detected
    /\ stats.total_pii_detected <= stats.total_calls
    /\ stats.action_counts.allow >= stats.total_calls - stats.total_pii_detected

\* default_action set to Allow: a call with PII is counted in
\* total_pii_detected and under allow, beside a call that was denied.
C25_Witness ==
    /\ config.default_action = "Allow"
    /\ Governed
    /\ result.pii.has_pii
    /\ result.action = "Allow"
    /\ stats.total_pii_detected = 2
    /\ stats.action_counts.allow = 1
    /\ stats.action_counts.deny = 1

\* C26: total_processing_time_ns is the exact sum of the processing times
\* written in the receipts of the govern calls made since construction or
\* the last reset_stats: it is 0 when no call is counted, a govern call adds
\* the time of its receipt (the sum, not the sum modulo a power of two), a
\* reset_stats sets it to 0 and no other call changes it.
C26_ExactTotalTime ==
    /\ [](stats.total_calls = 0 => stats.total_processing_time_ns = 0)
    /\ [][IF stats'.total_calls = stats.total_calls + 1
           THEN stats'.total_processing_time_ns
                  = stats.total_processing_time_ns + result'.receipt.processing_time_ns
           ELSE IF op'.name = "reset_stats"
                THEN stats'.total_processing_time_ns = 0
                ELSE stats'.total_processing_time_ns = stats.total_processing_time_ns]_vars

\* Two govern calls of 40000 ns each: the total has passed 16 bits.
C26_Witness ==
    /\ Governed
    /\ stats.total_calls = 2
    /\ result.receipt.processing_time_ns = 40000
    /\ stats.total_processing_time_ns = 80000

(***************************************************************************)
(* Properties of the middleware's process (SpecShared)                     *)
(***************************************************************************)
\* The path starts with one of the prefixes.
HasPrefixIn(path, prefixes) ==
    \E k \in DOMAIN prefixes :
        /\ Len(prefixes[k]) <= Len(path)
        /\ \A i \in 1..Len(prefixes[k]) : path[i] = prefixes[k][i]

\* The request is one that the middleware does not govern: a method other
\* than POST, PUT, PATCH, a path under no protect prefix, or a path under a
\* skip prefix (under a protect prefix or not).
NotGoverned(request) ==
    \/ request.method \notin {"POST", "PUT", "PATCH"}
    \/ ~HasPrefixIn(request.path, HandleConfig.protected_paths)
    \/ HasPrefixIn(request.path, HandleConfig.skip_paths)

\* The process calls made so far.
ProcessCallers == {t \in DOMAIN calls : calls[t].pc # "idle" /\ calls[t].call.name = "process"}

\* C21: a process call whose method is not POST, PUT or PATCH, or whose path
\* starts with no protect prefix, or whose path starts with a skip prefix
\* (even if it also starts with a protect prefix) bypasses the engine: it
\* returns None at once, never asks for the guard, and its step leaves the
\* statistics, the configuration and the guard as they were.
C21_BypassLeavesEngine ==
    /\ [](\A t \in ProcessCallers :
             NotGoverned(calls[t].call.request)
                => calls[t].pc = "returned" /\ calls[t].ret = NoValue /\ mutex # t)
    /\ [][\A t \in DOMAIN calls :
             (/\ calls[t].pc = "idle"
              /\ calls'[t].pc # "idle"
              /\ calls'[t].call.name = "process"
              /\ NotGoverned(calls'[t].call.request))
                => stats' = stats /\ config' = config /\ mutex' = mutex]_vars

\* A PUT to a path under both the skip prefix and the protect prefix has
\* returned None, after another caller's request was governed.
C21_Witness ==
    \E t \in ProcessCallers :
        /\ calls[t].call.request.method = "PUT"
        /\ HasPrefixIn(calls[t].call.request.path, HandleConfig.protected_paths)
        /\ HasPrefixIn(calls[t].call.request.path, HandleConfig.skip_paths)
        /\ calls[t].pc = "returned"
        /\ calls[t].ret = NoValue
        /\ stats.total_calls = 1

\* The process calls that reached the engine: they hold the extracted text.
EnteredCallers == {t \in ProcessCallers : calls[t].local # NoValue}

\* The candidate field names, in configured order.
Candidates == HandleConfig.content_fields

\* The fields of the body of caller t's request.
BodyOf(t) == calls[t].call.request.body.map

\* C22 as stated: the text passed to the engine is the value of the first
\* candidate name, in configured order, that is present in the body; a later
\* candidate is never used when an earlier one is present.
C22_FirstPresentWins ==
    \A t \in EnteredCallers :
        \E k \in DOMAIN Candidates :
            /\ Candidates[k] \in DOMAIN BodyOf(t)
            /\ \A j \in 1..(k - 1) : Candidates[j] \notin DOMAIN BodyOf(t)
            /\ BodyOf(t)[Candidates[k]] = [type |-> "string", s |-> calls[t].local.content]

\* C22, amended: the text passed to the engine is the value of the first
\* candidate name, in configured order, whose value in the body is a
\* non-empty string; every earlier candidate is absent from the body, or is
\* not a string, or is the empty string.  The receipt of the call is that of
\* this text.
C22_FirstNonEmptyStringWins ==
    \A t \in EnteredCallers :
        /\ \E k \in DOMAIN Candidates :
              /\ Candidates[k] \in DOMAIN BodyOf(t)
              /\ BodyOf(t)[Candidates[k]] = [type |-> "string", s |-> calls[t].local.content]
              /\ calls[t].local.content # <<>>
              /\ \A j \in 1..(k - 1) :
                    \/ Candidates[j] \notin DOMAIN BodyOf(t)
                    \/ BodyOf(t)[Candidates[j]].type # "string"
                    \/ BodyOf(t)[Candidates[j]].s = <<>>
        /\ calls[t].ret # NoValue
              => calls[t].ret.value.receipt.input_hash = hash_text(calls[t].local.content)

\* A request whose first candidate is the empty string and whose second is
\* a number was governed on the text of its third candidate, and a request
\* with text in its first two candidates on the text of the first.
C22_Witness ==
    \E t, u \in EnteredCallers :
        /\ {"content", "message", "text"} \subseteq DOMAIN BodyOf(t)
        /\ BodyOf(t)["content"] = [type |-> "string", s |-> <<>>]
        /\ BodyOf(t)["message"].type = "number"
        /\ calls[t].local.content = BodyOf(t)["text"].s
        /\ calls[t].ret # NoValue
        /\ {"content", "message"} \subseteq DOMAIN BodyOf(u)
        /\ calls[u].local.content = BodyOf(u)["content"].s
        /\ calls[u].local.content # BodyOf(u)["message"].s
        /\ calls[u].pc = "returned"

\* The body yields no text: it is no JSON value, or a JSON value that is no
\* object, or an object with none of the candidate fields.
NoExtractableText(body) ==
    \/ body.json = "invalid"
    \/ body.json \notin {"invalid", "object"}
    \/ body.json = "object"
          /\ \A k \in DOMAIN Candidates : Candidates[k] \notin DOMAIN body.map

\* C23: a process call whose body yields no text returns None: the call
\* completes (its one step ends in "returned"), it never asks for the guard,
\* no text of it reaches the engine, and its step leaves the statistics, the
\* configuration and the guard as they were.
C23_NoTextNoGovern ==
    /\ [](\A t \in ProcessCallers :
             NoExtractableText(calls[t].call.request.body)
                => /\ calls[t].pc = "returned"
                   /\ calls[t].ret = NoValue
                   /\ calls[t].local = NoValue
                   /\ mutex # t)
    /\ [][\A t \in DOMAIN calls :
             (/\ calls[t].pc = "idle"
              /\ calls'[t].pc # "idle"
              /\ calls'[t].call.name = "process"
              /\ NoExtractableText(calls'[t].call.request.body))
                => stats' = stats /\ config' = config /\ mutex' = mutex]_vars

\* On a governed path, a POST whose body is no JSON and a POST whose body
\* is an object without any candidate field have both returned None, and
\* the engine has counted no call.
C23_Witness ==
    \E t, u \in ProcessCallers :
        /\ ~NotGoverned(calls[t].call.request)
        /\ calls[t].call.request.body.json = "invalid"
        /\ calls[t].pc = "returned"
        /\ calls[t].ret = NoValue
        /\ ~NotGoverned(calls[u].call.request)
        /\ calls[u].call.request.body.json = "object"
        /\ DOMAIN calls[u].call.request.body.map = {"other"}
        /\ calls[u].pc = "returned"
        /\ calls[u].ret = NoValue
        /\ stats = DefaultStats

(***************************************************************************)
(* The engine's detection and the standalone detection (Spec)              *)
(***************************************************************************)
\* The categories of a PIIDetectionResult, as a set.
CategorySet(d) == {d.types[i] : i \in DOMAIN d.types}

\* Two PIIDetectionResults agree on has_pii, the set of categories,
\* count, matches and redacted_text.
SameDetection(d, e) ==
    /\ d.has_pii = e.has_pii
    /\ CategorySet(d) = CategorySet(e)
    /\ Len(d.types) = Len(e.types)
    /\ d.count = e.count
    /\ d.matches = e.matches
    /\ d.redacted_text = e.redacted_text

====
